---- MODULE Spec2Model ----
(***************************************************************************)
(* The audio-excerpt server of src/1lab/server.py and the transport that   *)
(* carries the client's command lines to it.                               *)
(*                                                                         *)
(* A received chunk is a sequence of bytes (0..255); a Python str is a     *)
(* sequence of code points.  A float is a record: [k |-> "num", v |-> n]   *)
(* is the number n / Scale seconds, [k |-> "nan"] and [k |-> "inf", neg]   *)
(* are the IEEE specials float() accepts.                                  *)
(***************************************************************************)
EXTENDS Integers, Sequences, FiniteSets, TLC

\* ---------------------------------------------------------------- bounds

\* Decimal places a time token may carry; floats are exact to 10^-FracDigits s.
FracDigits == 4

\* Command lines one client writes on its connection (SpecStream).
MaxLines == 2

RECURSIVE Pow10(_)
Pow10(n) == IF n = 0 THEN 1 ELSE 10 * Pow10(n - 1)

\* Float units per second.
Scale == Pow10(FracDigits)

Min(a, b) == IF a < b THEN a ELSE b

\* ------------------------------------------------- bytes, str, tokens

\* bytes.decode('utf-8') (server.py:85): the str, or a UnicodeDecodeError.
IsCont(b) == b >= 128 /\ b <= 191

RECURSIVE DecodeFrom(_, _)
DecodeFrom(data, i) ==
    IF i > Len(data) THEN [ok |-> TRUE, str |-> <<>>]
    ELSE LET b == data[i]
             n == IF b < 128 THEN 1
                  ELSE IF b >= 194 /\ b <= 223 THEN 2
                  ELSE IF b >= 224 /\ b <= 239 THEN 3
                  ELSE IF b >= 240 /\ b <= 244 THEN 4
                  ELSE 0
             fits == n > 0 /\ i + n - 1 <= Len(data)
                     /\ \A j \in (i + 1)..(i + n - 1) : IsCont(data[j])
             \* no overlong forms, no surrogates, nothing above U+10FFFF
             sound == fits
                      /\ (b = 224 => data[i + 1] >= 160)
                      /\ (b = 237 => data[i + 1] <= 159)
                      /\ (b = 240 => data[i + 1] >= 144)
                      /\ (b = 244 => data[i + 1] <= 143)
             lead == IF n = 1 THEN b
                     ELSE IF n = 2 THEN b % 32
                     ELSE IF n = 3 THEN b % 16
                     ELSE b % 8
             cp == IF n = 1 THEN lead
                   ELSE IF n = 2 THEN lead * 64 + (data[i + 1] % 64)
                   ELSE IF n = 3 THEN lead * 4096 + (data[i + 1] % 64) * 64
                                      + (data[i + 2] % 64)
                   ELSE lead * 262144 + (data[i + 1] % 64) * 4096
                        + (data[i + 2] % 64) * 64 + (data[i + 3] % 64)
         IN IF ~sound THEN [ok |-> FALSE, str |-> <<>>]
            ELSE LET rest == DecodeFrom(data, i + n)
                 IN [ok |-> rest.ok,
                     str |-> IF rest.ok THEN <<cp>> \o rest.str ELSE <<>>]

Utf8Decode(data) == DecodeFrom(data, 1)

\* str.encode('utf-8') (server.py:91, 116, ...) of one code point.
EncodeCp(c) ==
    IF c < 128 THEN <<c>>
    ELSE IF c < 2048 THEN <<192 + (c \div 64), 128 + (c % 64)>>
    ELSE IF c < 65536
         THEN <<224 + (c \div 4096), 128 + ((c \div 64) % 64), 128 + (c % 64)>>
    ELSE <<240 + (c \div 262144), 128 + ((c \div 4096) % 64),
           128 + ((c \div 64) % 64), 128 + (c % 64)>>

\* str.encode('utf-8') of a str: the encodings of its code points, in order
\* (the str is halved to keep the evaluation shallow).
RECURSIVE Utf8Encode(_)
Utf8Encode(s) ==
    IF s = <<>> THEN <<>>
    ELSE IF Len(s) = 1 THEN EncodeCp(s[1])
    ELSE LET h == Len(s) \div 2
         IN Utf8Encode(SubSeq(s, 1, h)) \o Utf8Encode(SubSeq(s, h + 1, Len(s)))

\* str.isspace() of one code point : what strip() and split() treat as blank.
IsSpace(c) ==
    \/ c \in 9..13
    \/ c \in 28..32
    \/ c \in {133, 160, 5760, 8232, 8233, 8239, 8287, 12288}
    \/ c \in 8192..8202

\* str.strip() (server.py:85).
RECURSIVE LStrip(_)
LStrip(s) == IF s # <<>> /\ IsSpace(Head(s)) THEN LStrip(Tail(s)) ELSE s

RECURSIVE RStrip(_)
RStrip(s) ==
    IF s # <<>> /\ IsSpace(s[Len(s)]) THEN RStrip(SubSeq(s, 1, Len(s) - 1)) ELSE s

Strip(s) == RStrip(LStrip(s))

\* str.split() with no separator (server.py:87): the maximal runs of
\* non-blank code points, in order.
RECURSIVE SplitFrom(_, _)
SplitFrom(s, cur) ==
    IF s = <<>> THEN (IF cur = <<>> THEN <<>> ELSE <<cur>>)
    ELSE IF IsSpace(Head(s))
         THEN (IF cur = <<>> THEN <<>> ELSE <<cur>>) \o SplitFrom(Tail(s), <<>>)
         ELSE SplitFrom(Tail(s), Append(cur, Head(s)))

Split(s) == SplitFrom(s, <<>>)

\* str.upper() (server.py:94) on ASCII and the basic Cyrillic letters.
UpperCp(c) ==
    IF c \in 97..122 THEN c - 32
    ELSE IF c \in 1072..1103 THEN c - 32
    ELSE IF c \in 1104..1119 THEN c - 80
    ELSE c

Upper(s) == [i \in 1..Len(s) |-> UpperCp(s[i])]

LowerCp(c) == IF c \in 65..90 THEN c + 32 ELSE c

\* Pack32 with the byte order reversed, as struct.pack('<I', n) would give.
Pack32LittleEndian(n) ==
    <<n % 256, (n \div 256) % 256, (n \div 65536) % 256, (n \div 16777216) % 256>>

\* struct.pack('!I', n) (server.py:120): four bytes, most significant first.
Pack32(n) ==
    <<(n \div 16777216) % 256, (n \div 65536) % 256, (n \div 256) % 256, n % 256>>

\* b'0' + struct.pack('!I', len(err_bytes)) + err_bytes (server.py:120), and
\* the same with b'1' and the excerpt (server.py:253).
Framed(status, payload) == <<status>> \o Pack32(Len(payload)) \o payload

\* ------------------------------------------------------------- floats

Float(k, v, neg) == [k |-> k, v |-> v, neg |-> neg]

\* What float() raises on a token that is no number (server.py:145).
ValueError == Float("err", 0, FALSE)

IsDigit(c) == c \in 48..57

RECURSIVE DigitsValue(_)
DigitsValue(s) ==
    IF s = <<>> THEN 0
    ELSE DigitsValue(SubSeq(s, 1, Len(s) - 1)) * 10 + (s[Len(s)] - 48)

\* float(token) (server.py:141, 143) on the tokens [+-]digits[.digits],
\* [+-]nan, [+-]inf and [+-]infinity (letters in either case).  Exponents,
\* underscores and more than FracDigits decimals are not in the input sets.
ParseFloat(tok) ==
    LET signed == tok # <<>> /\ tok[1] \in {43, 45}
        neg == tok # <<>> /\ tok[1] = 45
        body == IF signed THEN Tail(tok) ELSE tok
        low == [i \in 1..Len(body) |-> LowerCp(body[i])]
        dots == {i \in 1..Len(body) : body[i] = 46}
        dot == IF dots = {} THEN Len(body) + 1 ELSE CHOOSE i \in dots : TRUE
        ip == SubSeq(body, 1, dot - 1)
        fp == SubSeq(body, dot + 1, Len(body))
        kept == SubSeq(fp, 1, Min(Len(fp), FracDigits))
        mag == DigitsValue(ip) * Scale
               + DigitsValue(kept) * Pow10(FracDigits - Len(kept))
    IN IF low = <<110, 97, 110>> THEN Float("nan", 0, FALSE)
       ELSE IF low \in {<<105, 110, 102>>, <<105, 110, 102, 105, 110, 105, 116, 121>>}
            THEN Float("inf", 0, neg)
       ELSE IF \/ Cardinality(dots) > 1
               \/ Len(ip) + Len(fp) = 0
               \/ \E i \in 1..Len(ip) : ~IsDigit(ip[i])
               \/ \E i \in 1..Len(fp) : ~IsDigit(fp[i])
            THEN ValueError
       ELSE Float("num", IF neg THEN 0 - mag ELSE mag, neg)

\* x < y on floats: false as soon as either side is NaN.
FLt(x, y) ==
    IF x.k = "nan" \/ y.k = "nan" THEN FALSE
    ELSE IF x.k = "inf" THEN x.neg /\ ~(y.k = "inf" /\ y.neg)
    ELSE IF y.k = "inf" THEN ~y.neg
    ELSE x.v < y.v

FGt(x, y) == FLt(y, x)

\* x >= y on floats: false as soon as either side is NaN.
FGe(x, y) == x.k # "nan" /\ y.k # "nan" /\ ~FLt(x, y)

FZero == Float("num", 0, FALSE)

\* len(audio) / 1000.0 (server.py:185): milliseconds to float seconds.
MsToSec(ms) == Float("num", ms * (Scale \div 1000), FALSE)

\* round(x, 2) (server.py:48) of a non-negative float, ties to even.
Round2(x) ==
    LET step == Scale \div 100
        q == x.v \div step
        r == x.v % step
        up == 2 * r > step \/ (2 * r = step /\ q % 2 = 1)
    IN Float("num", (IF up THEN q + 1 ELSE q) * step, FALSE)

\* int(x * 1000) (server.py:223, 225): truncation toward zero; NaN and the
\* infinities raise.
ToMs(x) ==
    IF x.k = "num"
    THEN [ok |-> TRUE,
          ms |-> IF x.v >= 0 THEN (x.v * 1000) \div Scale
                 ELSE 0 - (((0 - x.v) * 1000) \div Scale)]
    ELSE [ok |-> FALSE, ms |-> 0]

RECURSIVE IntStr(_)
IntStr(n) ==
    IF n < 10 THEN <<48 + n>> ELSE IntStr(n \div 10) \o <<48 + (n % 10)>>

RECURSIVE PadDigits(_, _)
PadDigits(n, width) ==
    IF width = 0 THEN <<>> ELSE PadDigits(n \div 10, width - 1) \o <<48 + (n % 10)>>

RECURSIVE DropZeros(_)
DropZeros(s) ==
    IF s # <<>> /\ s[Len(s)] = 48 THEN DropZeros(SubSeq(s, 1, Len(s) - 1)) ELSE s

\* str(x) of a float, as the f-string of server.py:211 and json.dumps
\* (server.py:103) write it: the shortest decimal, never without a fraction.
FloatRepr(x) ==
    IF x.k = "nan" THEN <<110, 97, 110>>
    ELSE IF x.k = "inf"
         THEN (IF x.neg THEN <<45>> ELSE <<>>) \o <<105, 110, 102>>
    ELSE LET mag == IF x.v < 0 THEN 0 - x.v ELSE x.v
             frac == DropZeros(PadDigits(mag % Scale, FracDigits))
         IN (IF x.neg THEN <<45>> ELSE <<>>)
            \o IntStr(mag \div Scale) \o <<46>>
            \o (IF frac = <<>> THEN <<48>> ELSE frac)

\* ----------------------------------------------------------- messages

\* server.py:89, the str literal (code points); in English: Empty request.
MsgEmpty ==
    <<1055, 1091, 1089, 1090, 1086, 1081, 32, 1079, 1072, 1087, 1088, 1086, 1089, 46>>

\* server.py:99, the str literal (code points); in English: LIST takes no parameters.
MsgListParams ==
    <<1050, 1086, 1084, 1072, 1085, 1076, 1072, 32, 76, 73, 83, 84, 32, 1085, 1077, 32,
      1087, 1088, 1080, 1085, 1080, 1084, 1072, 1077, 1090, 32, 1087, 1072, 1088, 1072,
      1084, 1077, 1090, 1088, 1099, 46>>

\* server.py:112, the str literal (code points); in English: Bad GET format. Use: GET <file> <start> <end>
MsgGetFormat ==
    <<1053, 1077, 1074, 1077, 1088, 1085, 1099, 1081, 32, 1092, 1086, 1088, 1084, 1072,
      1090, 32, 1082, 1086, 1084, 1072, 1085, 1076, 1099, 32, 71, 69, 84, 46, 32, 1048,
      1089, 1087, 1086, 1083, 1100, 1079, 1091, 1081, 1090, 1077, 58, 32, 71, 69, 84, 32,
      60, 1080, 1084, 1103, 95, 1092, 1072, 1081, 1083, 1072, 62, 32, 60, 1085, 1072, 1095,
      1072, 1083, 1086, 62, 32, 60, 1082, 1086, 1085, 1077, 1094, 62>>

\* server.py:147, the str literal (code points); in English: Time parameters must be numbers.
MsgTimeFormat ==
    <<1055, 1072, 1088, 1072, 1084, 1077, 1090, 1088, 1099, 32, 1074, 1088, 1077, 1084,
      1077, 1085, 1080, 32, 1076, 1086, 1083, 1078, 1085, 1099, 32, 1073, 1099, 1090, 1100,
      32, 1095, 1080, 1089, 1083, 1072, 1084, 1080, 46>>

\* server.py:158, the str literal (code points); in English: Time parameters cannot be negative.
MsgNegative ==
    <<1042, 1088, 1077, 1084, 1077, 1085, 1085, 1099, 1077, 32, 1087, 1072, 1088, 1072,
      1084, 1077, 1090, 1088, 1099, 32, 1085, 1077, 32, 1084, 1086, 1075, 1091, 1090, 32,
      1073, 1099, 1090, 1100, 32, 1086, 1090, 1088, 1080, 1094, 1072, 1090, 1077, 1083,
      1100, 1085, 1099, 1084, 1080, 46>>

\* server.py:200, the str literal (code points); in English: Start time must be less than end time.
MsgRange ==
    <<1053, 1072, 1095, 1072, 1083, 1100, 1085, 1086, 1077, 32, 1074, 1088, 1077, 1084,
      1103, 32, 1076, 1086, 1083, 1078, 1085, 1086, 32, 1073, 1099, 1090, 1100, 32, 1084,
      1077, 1085, 1100, 1096, 1077, 32, 1082, 1086, 1085, 1077, 1095, 1085, 1086, 1075,
      1086, 46>>

\* server.py:129, the str literal (code points); in English: File '  (prefix of both not-found messages)
MsgFilePre ==
    <<1060, 1072, 1081, 1083, 32, 39>>

\* server.py:129, the str literal (code points); in English: ' not found.
MsgNotFoundPost ==
    <<39, 32, 1085, 1077, 32, 1085, 1072, 1081, 1076, 1077, 1085, 46>>

\* server.py:171, the str literal (code points); in English: ' not found in the file system.
MsgMissingPost ==
    <<39, 32, 1085, 1077, 32, 1085, 1072, 1081, 1076, 1077, 1085, 32, 1074, 32, 1092, 1072,
      1081, 1083, 1086, 1074, 1086, 1081, 32, 1089, 1080, 1089, 1090, 1077, 1084, 1077, 46>>

\* server.py:189, the str literal (code points); in English: Audio file read error: 
MsgReadErrPre ==
    <<1054, 1096, 1080, 1073, 1082, 1072, 32, 1095, 1090, 1077, 1085, 1080, 1103, 32, 1072,
      1091, 1076, 1080, 1086, 1092, 1072, 1081, 1083, 1072, 58, 32>>

\* server.py:265, the str literal (code points); in English: Audio processing error: 
MsgProcErrPre ==
    <<1054, 1096, 1080, 1073, 1082, 1072, 32, 1086, 1073, 1088, 1072, 1073, 1086, 1090,
      1082, 1080, 32, 1072, 1091, 1076, 1080, 1086, 58, 32>>

\* server.py:211, the str literal (code points); in English: End time (
MsgExceedsPre ==
    <<1050, 1086, 1085, 1077, 1095, 1085, 1086, 1077, 32, 1074, 1088, 1077, 1084, 1103, 32,
      40>>

\* server.py:211, the str literal (code points); in English:  sec) exceeds the file duration (
MsgExceedsMid ==
    <<32, 1089, 1077, 1082, 41, 32, 1087, 1088, 1077, 1074, 1099, 1096, 1072, 1077, 1090,
      32, 1076, 1083, 1080, 1090, 1077, 1083, 1100, 1085, 1086, 1089, 1090, 1100, 32, 1092,
      1072, 1081, 1083, 1072, 32, 40>>

\* server.py:211, the str literal (code points); in English:  sec).
MsgExceedsPost ==
    <<32, 1089, 1077, 1082, 41, 46>>

\* server.py:273, the str literal (code points); in English: Unknown command: 
MsgUnknownPre ==
    <<1053, 1077, 1080, 1079, 1074, 1077, 1089, 1090, 1085, 1072, 1103, 32, 1082, 1086,
      1084, 1072, 1085, 1076, 1072, 58, 32>>

\* str(e) of the ValueError int() raises on NaN (server.py:223, 265):
\* "cannot convert float NaN to integer".
MsgNaN ==
    <<99, 97, 110, 110, 111, 116, 32, 99, 111, 110, 118, 101, 114, 116, 32, 102, 108,
      111, 97, 116, 32, 78, 97, 78, 32, 116, 111, 32, 105, 110, 116, 101, 103, 101, 114>>

\* str(e) of an audio-engine failure (server.py:189, 265); its wording is the
\* engine's: "decode failed" stands for it.
MsgEngine == <<100, 101, 99, 111, 100, 101, 32, 102, 97, 105, 108, 101, 100>>

\* ------------------------------------------------ files and the catalog

\* File names of the audio directory, as str.
AWav == <<97, 46, 119, 97, 118>>        \* "a.wav"
BWav == <<98, 46, 119, 97, 118>>        \* "b.wav"
NTxt == <<110, 46, 116, 120, 116>>      \* "n.txt"

\* os.listdir(audio_dir) (server.py:43): the directory's names, in its order.
ListDir == <<AWav, BWav, NTxt>>

DirNames == {ListDir[i] : i \in 1..Len(ListDir)}

\* The file that changes while the server runs.  b.wav is there or not from
\* the start, n.txt is a present file that is no audio.
Volatile == {AWav}

\* len(audio) in milliseconds of each file's content, when it decodes.
AudioLen(name) == IF name = AWav THEN 1506 ELSE 800

\* A file is "ok" (present, decodable), "corrupt" (present, the engine cannot
\* open it) or "absent".
FileStates == {"ok", "corrupt", "absent"}

\* The states the directory can be in.
Disks ==
    {d \in [DirNames -> FileStates] :
        d[NTxt] = "corrupt" /\ d[BWav] \in {"ok", "absent"}}

\* os.path.exists(file_path) (server.py:35, 170).
Exists(dsk, name) == name \in DOMAIN dsk /\ dsk[name] # "absent"

\* AudioSegment.from_file(file_path) (server.py:47, 183) succeeds.
CanOpen(dsk, name) == name \in DOMAIN dsk /\ dsk[name] = "ok"

\* SUPPORTED_EXTENSIONS (server.py:25): ".wav", ".mp3", ".ogg", ".flac".
SUPPORTED_EXTENSIONS ==
    {<<46, 119, 97, 118>>, <<46, 109, 112, 51>>, <<46, 111, 103, 103>>,
     <<46, 102, 108, 97, 99>>}

Lower(s) == [i \in 1..Len(s) |-> LowerCp(s[i])]

EndsWith(s, suffix) ==
    Len(s) >= Len(suffix) /\ SubSeq(s, Len(s) - Len(suffix) + 1, Len(s)) = suffix

\* os.path.splitext(filename)[1] (server.py:49, 229): from the last dot on,
\* empty when the name has no dot after its first character.
SplitExt(name) ==
    LET dots == {i \in 2..Len(name) : name[i] = 46}
    IN IF dots = {} THEN <<>>
       ELSE LET d == CHOOSE i \in dots : \A j \in dots : j <= i
            IN SubSeq(name, d, Len(name))

\* load_audio_metadata (server.py:43-56): one entry per listed file with a
\* supported extension that the engine opens; a file it cannot open is skipped.
RECURSIVE ScanFrom(_, _)
ScanFrom(names, dsk) ==
    IF names = <<>> THEN <<>>
    ELSE LET filename == Head(names)
             rest == ScanFrom(Tail(names), dsk)
         IN IF \E ext \in SUPPORTED_EXTENSIONS : EndsWith(Lower(filename), ext)
            THEN IF CanOpen(dsk, filename)
                 THEN <<[filename |-> filename,
                         duration_sec |-> Round2(MsToSec(AudioLen(filename))),
                         format |-> Tail(SplitExt(filename))]>> \o rest
                 ELSE rest
            ELSE rest

load_audio_metadata(dsk) == ScanFrom(ListDir, dsk)

\* json.dumps(metadata_list) (server.py:103), as str.
RECURSIVE JsonItems(_)
JsonItems(list) ==
    IF list = <<>> THEN <<>>
    ELSE LET e == Head(list)
         IN <<123, 34, 102, 105, 108, 101, 110, 97, 109, 101, 34, 58, 32, 34>>
            \o e.filename
            \o <<34, 44, 32, 34, 100, 117, 114, 97, 116, 105, 111, 110, 95, 115,
                 101, 99, 34, 58, 32>>
            \o FloatRepr(e.duration_sec)
            \o <<44, 32, 34, 102, 111, 114, 109, 97, 116, 34, 58, 32, 34>>
            \o e.format
            \o <<34, 125>>
            \o (IF Tail(list) = <<>> THEN <<>> ELSE <<44, 32>>)
            \o JsonItems(Tail(list))

\* JsonDumps leaving the last entry out.
JsonDumpsWithoutLast(list) ==
    <<91>> \o JsonItems(SubSeq(list, 1, Len(list) - 1)) \o <<93>>

JsonDumps(list) == <<91>> \o JsonItems(list) \o <<93>>

\* InCatalog comparing the names without regard to case.
InCatalogAnyCase(cat, filename) ==
    \E i \in 1..Len(cat) : Lower(cat[i].filename) = Lower(filename)

\* any(item['filename'] == filename for item in metadata_list) (server.py:128).
InCatalog(cat, filename) == \E i \in 1..Len(cat) : cat[i].filename = filename

\* audio[start_ms:end_ms] exported to bytes (server.py:227-245).  The engine is
\* an external collaborator: its output stands as a four-byte header and one
\* byte for every started 100 ms of the slice, read off the file's content.
Excerpt(filename, start_ms, end_ms) ==
    LET n == (end_ms - start_ms + 99) \div 100
    IN <<82, 73, 70, 70>>
       \o [i \in 1..n |-> (filename[1] + ((start_ms \div 100) + i)) % 256]

\* ------------------------------------------- one command (handle_client)

\* What one pass of the loop did: the message it logged (kind), the bytes
\* it handed to sendall (sent), the GET checks it evaluated, in order
\* (checks), its locals parts, start_sec and end_sec (ValueError where float()
\* raised or was not reached), and the slice it took of the audio, if it took
\* one (used, start_ms, end_ms, of a file of len_ms).
Reply(kind, sent) ==
    [kind |-> kind, sent |-> sent, checks |-> <<>>, parts |-> <<>>,
     start_sec |-> ValueError, end_sec |-> ValueError, used |-> FALSE,
     start_ms |-> 0, end_ms |-> 0, len_ms |-> 0]

Checked(name, r) == [r EXCEPT !.checks = <<name>> \o @]

\* conn.sendall(err_msg.encode('utf-8')) (server.py:91, 101, 275).
Plain(kind, msg) == Reply(kind, Utf8Encode(msg))

\* err_bytes = err_msg.encode('utf-8'); conn.sendall(b'0' + ... ) (server.py:116-120).
Failure(kind, msg) == Reply(kind, Framed(48, Utf8Encode(msg)))

\* str(e) of what int() raises on a float that is no number: the ValueError
\* of NaN, the OverflowError of an infinity
\* ("cannot convert float infinity to integer").
IntErrText(x) ==
    IF x.k = "nan" THEN MsgNaN
    ELSE <<99, 97, 110, 110, 111, 116, 32, 99, 111, 110, 118, 101, 114, 116, 32,
           102, 108, 111, 97, 116, 32, 105, 110, 102, 105, 110, 105, 116, 121, 32,
           116, 111, 32, 105, 110, 116, 101, 103, 101, 114>>

\* server.py:221-271: the try block that converts to milliseconds, slices,
\* exports and sends; exportOk is whether the engine's export succeeds.
Extract(filename, start_sec, end_sec, len_ms, exportOk) ==
    LET s == ToMs(start_sec)
        e == ToMs(end_sec)
        sliced(r) == [r EXCEPT !.used = TRUE, !.start_ms = s.ms,
                               !.end_ms = e.ms, !.len_ms = len_ms]
    IN IF ~s.ok THEN Failure("process_error", MsgProcErrPre \o IntErrText(start_sec))
       ELSE IF ~e.ok
            THEN Failure("process_error", MsgProcErrPre \o IntErrText(end_sec))
       ELSE IF ~exportOk
            THEN sliced(Failure("process_error", MsgProcErrPre \o MsgEngine))
       ELSE sliced(Reply("ok", Framed(49, Excerpt(filename, s.ms, e.ms))))

\* CheckDuration comparing the start, not the end, with the duration.
CheckDurationOfStart(filename, start_sec, end_sec, len_ms, exportOk) ==
    Checked("duration",
        IF FGt(start_sec, MsToSec(len_ms))
        THEN Failure("exceeds",
                     MsgExceedsPre \o FloatRepr(end_sec) \o MsgExceedsMid
                     \o FloatRepr(MsToSec(len_ms)) \o MsgExceedsPost)
        ELSE Extract(filename, start_sec, end_sec, len_ms, exportOk))

\* server.py:210-219: end_sec > file_duration_sec.
CheckDuration(filename, start_sec, end_sec, len_ms, exportOk) ==
    Checked("duration",
        IF FGt(end_sec, MsToSec(len_ms))
        THEN Failure("exceeds",
                     MsgExceedsPre \o FloatRepr(end_sec) \o MsgExceedsMid
                     \o FloatRepr(MsToSec(len_ms)) \o MsgExceedsPost)
        ELSE Extract(filename, start_sec, end_sec, len_ms, exportOk))

\* CheckOrder with > in place of >=: an empty range passes.
CheckOrderStrict(filename, start_sec, end_sec, len_ms, exportOk) ==
    Checked("order",
        IF FGt(start_sec, end_sec)
        THEN Failure("range", MsgRange)
        ELSE CheckDuration(filename, start_sec, end_sec, len_ms, exportOk))

\* server.py:199-208: start_sec >= end_sec.
CheckOrder(filename, start_sec, end_sec, len_ms, exportOk) ==
    Checked("order",
        IF FGe(start_sec, end_sec)
        THEN Failure("range", MsgRange)
        ELSE CheckDuration(filename, start_sec, end_sec, len_ms, exportOk))

\* server.py:181-197: the engine opens the file and reports its length.
OpenAudio(filename, start_sec, end_sec, dsk, exportOk) ==
    Checked("open",
        IF ~CanOpen(dsk, filename)
        THEN Failure("read_error", MsgReadErrPre \o MsgEngine)
        ELSE CheckOrder(filename, start_sec, end_sec, AudioLen(filename), exportOk))

\* CheckOnDisk with the start < end test moved ahead of it.
CheckOnDiskAfterOrder(filename, start_sec, end_sec, dsk, exportOk) ==
    Checked("order",
        IF FGe(start_sec, end_sec)
        THEN Failure("range", MsgRange)
        ELSE Checked("exists",
                IF ~Exists(dsk, filename)
                THEN Failure("missing_disk", MsgFilePre \o filename \o MsgMissingPost)
                ELSE OpenAudio(filename, start_sec, end_sec, dsk, exportOk)))

\* server.py:168-179: os.path.exists(file_path).
CheckOnDisk(filename, start_sec, end_sec, dsk, exportOk) ==
    Checked("exists",
        IF ~Exists(dsk, filename)
        THEN Failure("missing_disk", MsgFilePre \o filename \o MsgMissingPost)
        ELSE OpenAudio(filename, start_sec, end_sec, dsk, exportOk))

\* server.py:157-166: start_sec < 0 or end_sec < 0.
CheckNonNegative(filename, start_sec, end_sec, dsk, exportOk) ==
    Checked("nonneg",
        IF FLt(start_sec, FZero) \/ FLt(end_sec, FZero)
        THEN Failure("negative", MsgNegative)
        ELSE CheckOnDisk(filename, start_sec, end_sec, dsk, exportOk))

\* server.py:139-155: float(parts[2]), float(parts[3]).
ParseTimes(parts, dsk, exportOk) ==
    LET start_sec == ParseFloat(parts[3])
        end_sec == ParseFloat(parts[4])
        r == IF start_sec = ValueError \/ end_sec = ValueError
             THEN Failure("time_format", MsgTimeFormat)
             ELSE CheckNonNegative(parts[2], start_sec, end_sec, dsk, exportOk)
    IN Checked("parse",
        [r EXCEPT !.start_sec = start_sec,
                  !.end_sec = IF start_sec = ValueError THEN ValueError ELSE end_sec])

\* CheckCatalog looking for the file in the directory, not in the catalog.
CheckCatalogOnDisk(parts, cat, dsk, exportOk) ==
    Checked("catalog",
        IF ~Exists(dsk, parts[2])
        THEN Failure("not_found", MsgFilePre \o parts[2] \o MsgNotFoundPost)
        ELSE ParseTimes(parts, dsk, exportOk))

\* server.py:124-137: the name must be a catalog entry.
CheckCatalog(parts, cat, dsk, exportOk) ==
    Checked("catalog",
        IF ~InCatalog(cat, parts[2])
        THEN Failure("not_found", MsgFilePre \o parts[2] \o MsgNotFoundPost)
        ELSE ParseTimes(parts, dsk, exportOk))

\* server.py:107-122: the GET branch, from its count of parts on.  parts[1]
\* is the verb, so the file name is parts[2] (Python's parts[1]).
GetCommand(parts, cat, dsk, exportOk) ==
    Checked("argc",
        IF Len(parts) # 4
        THEN Failure("get_format", MsgGetFormat)
        ELSE CheckCatalog(parts, cat, dsk, exportOk))

\* server.py:96-104: the LIST branch.
ListCommand(parts, cat) ==
    IF Len(parts) # 1
    THEN Plain("list_params", MsgListParams)
    ELSE Plain("list", JsonDumps(cat))

VerbLIST == <<76, 73, 83, 84>>
VerbGET == <<71, 69, 84>>

\* server.py:87-104, 107, 272-275: split into parts and branch on the verb.
Dispatch(command_line, cat, dsk, exportOk) ==
    LET parts == Split(command_line)
        r == IF parts = <<>> THEN Plain("empty", MsgEmpty)
             ELSE LET command == Upper(parts[1])
                  IN IF command = VerbLIST THEN ListCommand(parts, cat)
                     ELSE IF command = VerbGET
                          THEN GetCommand(parts, cat, dsk, exportOk)
                     ELSE Plain("unknown", MsgUnknownPre \o command)
    IN [r EXCEPT !.parts = parts]

\* server.py:85-275: one pass of the loop on the bytes recv returned.  A
\* UnicodeDecodeError leaves the loop with nothing sent.
HandleData(data, cat, dsk, exportOk) ==
    LET text == Utf8Decode(data)
    IN IF ~text.ok THEN Reply("decode_error", <<>>)
       ELSE Dispatch(Strip(text.str), cat, dsk, exportOk)

\* ------------------------------------------------------------ inputs

\* Connections the accept loop may admit.
MaxConns == 2

\* Commands one handler serves before the model stops following it (Spec).
MaxCmds == 2

Conns == 1..MaxConns

\* conn.recv(1024) (server.py:82): the most bytes one read returns.
BufSize == 1024

RECURSIVE Join(_)
Join(tokens) ==
    IF tokens = <<>> THEN <<>>
    ELSE IF Len(tokens) = 1 THEN Head(tokens)
    ELSE Head(tokens) \o <<32>> \o Join(Tail(tokens))

\* One command line on the wire (client.py:24, 52-54): the tokens, blanks
\* between them, a newline, in UTF-8.
Line(tokens) == Utf8Encode(Join(tokens) \o <<10>>)

\* Time tokens: "0", "0.0001", "0.0005", "1.506", "1.51", "-1", "abc", "nan", "inf".
TimeTokens ==
    {<<48>>, <<48, 46, 48, 48, 48, 49>>, <<48, 46, 48, 48, 48, 53>>,
     <<49, 46, 53, 48, 54>>, <<49, 46, 53, 49>>, <<45, 49>>, <<97, 98, 99>>,
     <<110, 97, 110>>, <<105, 110, 102>>}

\* File-name tokens: "a.wav" and "zz", a name of no file.
NameTokens == {AWav, <<122, 122>>}

\* What one read may return in Spec: every GET of three arguments over the
\* tokens, three GETs of b.wav (0..0.0005, 0..1.506, 1.506..0), GETs with
\* too few and too many arguments, a lower-case verb, LIST
\* with and without a parameter, an unknown verb, blank lines, and a line
\* that is not UTF-8; and GETs of "../a.wav" and "A.WAV", names of no
\* catalog entry.
Chunks ==
    {Line(<<VerbGET, f, s, e>>) : f \in NameTokens, s \in TimeTokens, e \in TimeTokens}
    \cup {Line(<<VerbGET, BWav, <<48>>, <<48, 46, 48, 48, 48, 53>>>>),
          Line(<<VerbGET, BWav, <<48>>, <<49, 46, 53, 48, 54>>>>),
          Line(<<VerbGET, BWav, <<49, 46, 53, 48, 54>>, <<48>>>>)}
    \cup {Line(<<VerbGET>>), Line(<<VerbGET, AWav, <<48>>>>),
          Line(<<VerbGET, AWav, <<48>>, <<49>>, <<50>>>>),
          Line(<<<<103, 101, 116>>, AWav, <<48>>, <<49>>>>),
          Line(<<VerbLIST>>), Line(<<<<108, 105, 115, 116>>>>),
          Line(<<VerbLIST, <<120>>>>), Line(<<<<70, 79, 79>>>>),
          <<10>>, <<32, 32, 10>>, <<255, 10>>}
    \cup {Line(<<VerbGET, <<46, 46, 47>> \o AWav, <<48>>, <<49>>>>),
          Line(<<VerbGET, Upper(AWav), <<48>>, <<49>>>>)}

\* The lines a client writes in SpecStream: "LIST", "GET a.wav 0 1".
Lines == {Line(<<VerbLIST>>), Line(<<VerbGET, AWav, <<48>>, <<49>>>>)}

\* The catalogs a startup can build.
Catalogs == {load_audio_metadata(d) : d \in Disks}

\* HandleData on every input of Spec, evaluated once: what the loop body
\* does (r) with the bytes data, under catalog cat and directory dsk.
Handled ==
    {[cat |-> cat, dsk |-> dsk, data |-> data,
      r |-> HandleData(data, cat, dsk, exportOk)] :
        cat \in Catalogs, dsk \in Disks, data \in Chunks, exportOk \in BOOLEAN}

\* -------------------------------------------------------------- state

VARIABLES
    disk,        \* the audio directory: file name -> FileStates
    catalog,     \* metadata_list, built once at startup
    pc,          \* per connection: "idle", "await" (blocked in recv), "closed"
    inbuf,       \* per connection: bytes written by the client, not yet read
    wrote,       \* per connection: command lines the client has written
    peerClosed,  \* per connection: the client has closed its end
    replies,     \* per connection: sendall calls that completed
    last,        \* per connection: the latest pass of the loop
    prev,        \* per connection: how the pass before it ended
    cause,       \* per connection: why the handler left the loop
    tmpdir,      \* the temporary files that exist
    tmp_name,    \* per connection: the handler's local tmp_name, 0 if none
    scan,        \* load_audio_metadata's position and locals
    wire,        \* response bytes sent to the client and not yet read by it
    cli          \* the client's position and locals

\* The state outside the handlers' loops: temporary files, the startup scan
\* and the client.
ext == <<tmpdir, tmp_name, scan, wire, cli>>

vars ==
    <<disk, catalog, pc, inbuf, wrote, peerClosed, replies, last, prev, cause,
      tmpdir, tmp_name, scan, wire, cli>>

\* Pass answering a successful GET with the excerpt another handler sent
\* last, if there is one.
PassCached(data, r, delivered) ==
    LET hits == {d \in Conns : r.kind = "ok" /\ last[d].kind = "ok"}
    IN [data |-> data, delivered |-> delivered, kind |-> r.kind,
        sent |-> IF hits = {} THEN r.sent ELSE last[CHOOSE d \in hits : TRUE].sent,
        checks |-> r.checks, parts |-> r.parts, start_sec |-> r.start_sec,
        end_sec |-> r.end_sec, used |-> r.used, start_ms |-> r.start_ms,
        end_ms |-> r.end_ms, len_ms |-> r.len_ms]

\* A pass as the state keeps it: the bytes read, what the loop body did
\* with them, and whether sendall completed.
Pass(data, r, delivered) ==
    [data |-> data, delivered |-> delivered, kind |-> r.kind, sent |-> r.sent,
     checks |-> r.checks, parts |-> r.parts, start_sec |-> r.start_sec,
     end_sec |-> r.end_sec, used |-> r.used, start_ms |-> r.start_ms,
     end_ms |-> r.end_ms, len_ms |-> r.len_ms]

NoPass == Pass(<<>>, Reply("none", <<>>), FALSE)

\* The scan's locals once load_audio_metadata has returned.
ScanOver ==
    [phase |-> "returned", found |-> TRUE, dir |-> <<>>, pos |-> 0,
     metadata_list |-> <<>>]

\* The client before its first request (client.py:121-123): connected,
\* in the menu loop.
CliMenu ==
    [pc |-> "menu", req |-> "none", asked |-> 0, clean |-> TRUE, status |-> <<>>,
     header |-> <<>>, received |-> <<>>, outcome |-> "none"]

\* No connection exists yet, no temporary file, nothing on the wire.
InitConns ==
    /\ pc = [c \in Conns |-> "idle"]
    /\ inbuf = [c \in Conns |-> <<>>]
    /\ wrote = [c \in Conns |-> 0]
    /\ peerClosed = [c \in Conns |-> FALSE]
    /\ replies = [c \in Conns |-> 0]
    /\ last = [c \in Conns |-> NoPass]
    /\ prev = [c \in Conns |-> "none"]
    /\ cause = [c \in Conns |-> "none"]
    /\ tmpdir = {}
    /\ tmp_name = [c \in Conns |-> 0]
    /\ wire = <<>>
    /\ cli = CliMenu

\* start_server (server.py:287-288): the catalog is built from the directory
\* as it is at startup; no connection exists yet.
Init ==
    /\ disk \in Disks
    /\ catalog = load_audio_metadata(disk)
    /\ scan = ScanOver
    /\ InitConns

\* ------------------------------------------------------------ actions

\* server.py:302-307: accept() returns the next connection (they are numbered
\* in the order accepted) and its handler thread starts, blocked in recv.
Accept(c) ==
    /\ pc[c] = "idle"
    /\ \A d \in Conns : d < c => pc[d] # "idle"
    /\ pc' = [pc EXCEPT ![c] = "await"]
    /\ UNCHANGED <<disk, catalog, inbuf, wrote, peerClosed, replies, last, prev, cause>>
    /\ UNCHANGED ext

\* The first connection of the server: Spec and SpecStream follow one handler.
AcceptOne(c) ==
    /\ \A d \in Conns : pc[d] = "idle"
    /\ Accept(c)

\* Raises with the unknown-command branch leaving the loop as well.
RaisesOnUnknown(r) == r.kind \in {"decode_error", "unknown"}

\* server.py:276-279: an exception that leaves the loop body closes the
\* connection; of the passes that raise nothing from sendall, the one that
\* failed to decode is the only one that raises.
Raises(r) == r.kind = "decode_error"

\* How a pass ended, for the pass after it: it served the command, refused
\* it with an error text, or left the loop.
Outcome(kind) ==
    IF kind \in {"list", "ok"} THEN "served"
    ELSE IF kind \in {"none", "decode_error"} THEN "none"
    ELSE "refused"

\* Serve rebuilding the catalog from the directory on every pass.
ServeRefreshing(c, data, r, sendOk) ==
    LET done == ~Raises(r) /\ sendOk
    IN /\ last' = [last EXCEPT ![c] = Pass(data, r, done)]
       /\ prev' = [prev EXCEPT ![c] = Outcome(last[c].kind)]
       /\ replies' = [replies EXCEPT ![c] = IF done THEN @ + 1 ELSE @]
       /\ pc' = [pc EXCEPT ![c] = IF done THEN "await" ELSE "closed"]
       /\ cause' = [cause EXCEPT ![c] =
                       IF done THEN @
                       ELSE IF Raises(r) THEN "error" ELSE "transport"]
       /\ catalog' = load_audio_metadata(disk)
       /\ UNCHANGED disk

\* server.py:82-275: recv returned data and the loop body produced r; sendOk
\* is whether sendall completes (it raises when the transport fails).
Serve(c, data, r, sendOk) ==
    LET done == ~Raises(r) /\ sendOk
    IN /\ last' = [last EXCEPT ![c] = Pass(data, r, done)]
       /\ prev' = [prev EXCEPT ![c] = Outcome(last[c].kind)]
       /\ replies' = [replies EXCEPT ![c] = IF done THEN @ + 1 ELSE @]
       /\ pc' = [pc EXCEPT ![c] = IF done THEN "await" ELSE "closed"]
       /\ cause' = [cause EXCEPT ![c] =
                       IF done THEN @
                       ELSE IF Raises(r) THEN "error" ELSE "transport"]
       /\ UNCHANGED <<disk, catalog>>

\* Spec: the handler reads one of Chunks.
RecvCommand(c) ==
    /\ pc[c] = "await"
    /\ ~peerClosed[c]
    /\ replies[c] < MaxCmds
    /\ \E p \in {q \in Handled : q.cat = catalog /\ q.dsk = disk},
          sendOk \in BOOLEAN :
           Serve(c, p.data, p.r, sendOk)
    /\ UNCHANGED <<inbuf, wrote, peerClosed>>
    /\ UNCHANGED ext

\* SpecStream: the client writes a command line (client.py:24, 54).
ClientWrite(c) ==
    /\ pc[c] # "idle"
    /\ ~peerClosed[c]
    /\ wrote[c] < MaxLines
    /\ \E line \in Lines : inbuf' = [inbuf EXCEPT ![c] = @ \o line]
    /\ wrote' = [wrote EXCEPT ![c] = @ + 1]
    /\ UNCHANGED <<disk, catalog, pc, peerClosed, replies, last, prev, cause>>
    /\ UNCHANGED ext

\* SpecStream: recv(1024) returns some first part of the bytes in flight,
\* at least one byte and at most BufSize (server.py:82).
RecvChunk(c) ==
    /\ pc[c] = "await"
    /\ inbuf[c] # <<>>
    /\ \E n \in 1..Min(Len(inbuf[c]), BufSize), exportOk \in BOOLEAN :
         \E r \in {HandleData(SubSeq(inbuf[c], 1, n), catalog, disk, exportOk)} :
           /\ Serve(c, SubSeq(inbuf[c], 1, n), r, TRUE)
           /\ inbuf' = [inbuf EXCEPT ![c] = SubSeq(@, n + 1, Len(@))]
    /\ UNCHANGED <<wrote, peerClosed>>
    /\ UNCHANGED ext

\* The client closes its socket (client.py:120, 139-141).
ClientClose(c) ==
    /\ pc[c] # "idle"
    /\ ~peerClosed[c]
    /\ peerClosed' = [peerClosed EXCEPT ![c] = TRUE]
    /\ UNCHANGED <<disk, catalog, pc, inbuf, wrote, replies, last, prev, cause>>
    /\ UNCHANGED ext

\* server.py:82-84: recv returns b'' once the peer has closed and nothing is
\* left to read; the loop breaks and the connection is closed.
RecvEof(c) ==
    /\ pc[c] = "await"
    /\ peerClosed[c]
    /\ inbuf[c] = <<>>
    /\ pc' = [pc EXCEPT ![c] = "closed"]
    /\ cause' = [cause EXCEPT ![c] = "eof"]
    /\ UNCHANGED <<disk, catalog, inbuf, wrote, peerClosed, replies, last, prev>>
    /\ UNCHANGED ext

\* RecvError taking every waiting handler down with it.
RecvErrorStopsAll(c) ==
    /\ pc[c] = "await"
    /\ pc' = [d \in Conns |-> IF pc[d] = "await" THEN "closed" ELSE pc[d]]
    /\ cause' = [d \in Conns |-> IF pc[d] = "await" THEN "transport" ELSE cause[d]]
    /\ UNCHANGED <<disk, catalog, inbuf, wrote, peerClosed, replies, last, prev>>
    /\ UNCHANGED ext

\* server.py:82, 276-279: recv itself raises (the connection was reset).
RecvError(c) ==
    /\ pc[c] = "await"
    /\ pc' = [pc EXCEPT ![c] = "closed"]
    /\ cause' = [cause EXCEPT ![c] = "transport"]
    /\ UNCHANGED <<disk, catalog, inbuf, wrote, peerClosed, replies, last, prev>>
    /\ UNCHANGED ext

\* The directory changes under the running server: a file is deleted,
\* overwritten with something the engine cannot open, or written back.  The
\* handler sees it at server.py:170 and 183; the catalog does not.
RemoveFile(f) ==
    /\ disk[f] # "absent"
    /\ disk' = [disk EXCEPT ![f] = "absent"]
    /\ UNCHANGED <<catalog, pc, inbuf, wrote, peerClosed, replies, last, prev, cause>>
    /\ UNCHANGED ext

CorruptFile(f) ==
    /\ disk[f] = "ok"
    /\ disk' = [disk EXCEPT ![f] = "corrupt"]
    /\ UNCHANGED <<catalog, pc, inbuf, wrote, peerClosed, replies, last, prev, cause>>
    /\ UNCHANGED ext

WriteFile(f) ==
    /\ disk[f] # "ok"
    /\ disk' = [disk EXCEPT ![f] = "ok"]
    /\ UNCHANGED <<catalog, pc, inbuf, wrote, peerClosed, replies, last, prev, cause>>
    /\ UNCHANGED ext

Next ==
    \/ \E c \in Conns : AcceptOne(c)
    \/ \E c \in Conns : RecvCommand(c)
    \/ \E c \in Conns : ClientClose(c)
    \/ \E c \in Conns : RecvEof(c)
    \/ \E c \in Conns : RecvError(c)
    \/ \E f \in Volatile : RemoveFile(f)
    \/ \E f \in Volatile : CorruptFile(f)
    \/ \E f \in Volatile : WriteFile(f)

Spec == Init /\ [][Next]_vars

NextStream ==
    \/ \E c \in Conns : AcceptOne(c)
    \/ \E c \in Conns : ClientWrite(c)
    \/ \E c \in Conns : RecvChunk(c)
    \/ \E c \in Conns : ClientClose(c)
    \/ \E c \in Conns : RecvEof(c)
    \/ \E c \in Conns : RecvError(c)

\* SpecStream starts with both audio files in place.
InitStream == Init /\ disk[AWav] = "ok" /\ disk[BWav] = "ok"

SpecStream == InitStream /\ [][NextStream]_vars

\* --------------------------------------------- concurrent handlers

\* What one read may return when several handlers run side by side: "LIST",
\* "GET a.wav 0 1.506", "GET b.wav 0 0.0005" and a line that is not UTF-8.
ConcChunks ==
    {Line(<<VerbLIST>>),
     Line(<<VerbGET, AWav, <<48>>, <<49, 46, 53, 48, 54>>>>),
     Line(<<VerbGET, BWav, <<48>>, <<48, 46, 48, 48, 48, 53>>>>),
     <<255, 10>>}

ConcHandled == {q \in Handled : q.data \in ConcChunks}

\* tempfile.NamedTemporaryFile (server.py:233) picks a name no file has; the
\* names it can pick, one more than there can be requests in flight.
TmpNames == 1..(MaxConns + 1)

InitConc == Init /\ disk[AWav] = "ok" /\ disk[BWav] = "ok"

\* server.py:82-237: the handler reads a command and runs the loop body up
\* to its send, or, for a GET that passed its checks, up to the creation of
\* the temporary file the excerpt is exported to.
RecvConc(c) ==
    /\ pc[c] = "await"
    /\ ~peerClosed[c]
    /\ replies[c] < MaxCmds
    /\ \E p \in {q \in ConcHandled : q.cat = catalog /\ q.dsk = disk} :
          IF p.r.used
          THEN \E n \in TmpNames \ tmpdir :
                 /\ tmpdir' = tmpdir \cup {n}
                 /\ tmp_name' = [tmp_name EXCEPT ![c] = n]
                 /\ last' = [last EXCEPT ![c] = Pass(p.data, p.r, FALSE)]
                 /\ prev' = [prev EXCEPT ![c] = Outcome(last[c].kind)]
                 /\ pc' = [pc EXCEPT ![c] = "export"]
                 /\ UNCHANGED <<disk, catalog, replies, cause>>
          ELSE /\ \E sendOk \in BOOLEAN : Serve(c, p.data, p.r, sendOk)
               /\ UNCHANGED <<tmpdir, tmp_name>>
    /\ UNCHANGED <<inbuf, wrote, peerClosed, scan, wire, cli>>

\* ExportDone removing the temporary file only after a successful export.
ExportDoneLeaking(c) ==
    /\ pc[c] = "export"
    /\ tmpdir' = IF last[c].kind = "ok" THEN tmpdir \ {tmp_name[c]} ELSE tmpdir
    /\ tmp_name' = [tmp_name EXCEPT ![c] = 0]
    /\ \E sendOk \in BOOLEAN :
          /\ last' = [last EXCEPT ![c].delivered = sendOk]
          /\ replies' = [replies EXCEPT ![c] = IF sendOk THEN @ + 1 ELSE @]
          /\ pc' = [pc EXCEPT ![c] = IF sendOk THEN "await" ELSE "closed"]
          /\ cause' = [cause EXCEPT ![c] = IF sendOk THEN @ ELSE "transport"]
    /\ UNCHANGED <<disk, catalog, prev, inbuf, wrote, peerClosed, scan, wire, cli>>

\* server.py:239-271: export and read-back end, well or with an exception;
\* the finally clause removes the temporary file; the excerpt or the error
\* text is sent.
ExportDone(c) ==
    /\ pc[c] = "export"
    /\ tmpdir' = tmpdir \ {tmp_name[c]}
    /\ tmp_name' = [tmp_name EXCEPT ![c] = 0]
    /\ \E sendOk \in BOOLEAN :
          /\ last' = [last EXCEPT ![c].delivered = sendOk]
          /\ replies' = [replies EXCEPT ![c] = IF sendOk THEN @ + 1 ELSE @]
          /\ pc' = [pc EXCEPT ![c] = IF sendOk THEN "await" ELSE "closed"]
          /\ cause' = [cause EXCEPT ![c] = IF sendOk THEN @ ELSE "transport"]
    /\ UNCHANGED <<disk, catalog, prev, inbuf, wrote, peerClosed, scan, wire, cli>>

NextConc ==
    \/ \E c \in Conns : Accept(c)
    \/ \E c \in Conns : RecvConc(c)
    \/ \E c \in Conns : ExportDone(c)
    \/ \E c \in Conns : ClientClose(c)
    \/ \E c \in Conns : RecvEof(c)
    \/ \E c \in Conns : RecvError(c)

SpecConc == InitConc /\ [][NextConc]_vars

\* ------------------------------------------------------- the client

\* Requests one client makes on its connection.
MaxReqs == 2

\* sock.recv(4096) (client.py:25, 76): the most bytes one read returns.
CliBuf == 4096

\* The client is the peer of the first connection.
CliConn == 1

\* The GET lines the user's input gives (client.py:44-52): "GET a.wav 0 1"
\* and "GET a.wav 1 0".
CliGets ==
    {Line(<<VerbGET, AWav, <<48>>, <<49>>>>), Line(<<VerbGET, AWav, <<49>>, <<48>>>>)}

\* The client talks to a server whose directory holds a.wav only.
InitClient == Init /\ disk[AWav] = "ok" /\ disk[BWav] = "absent"

SrvRest == <<disk, catalog, pc, wrote, peerClosed, replies, last, prev, cause,
             tmpdir, tmp_name, scan>>

\* client.py:24-25: get_audio_list sends "LIST\n" and blocks in recv(4096).
\* clean records that nothing of an earlier response was left unread.
CliSendList ==
    /\ cli.pc = "menu"
    /\ pc[CliConn] = "await"
    /\ cli.asked < MaxReqs
    /\ inbuf' = [inbuf EXCEPT ![CliConn] = @ \o Line(<<VerbLIST>>)]
    /\ cli' = [CliMenu EXCEPT !.pc = "list_recv", !.req = "list",
                              !.asked = cli.asked + 1, !.clean = (wire = <<>>)]
    /\ UNCHANGED wire
    /\ UNCHANGED SrvRest

\* client.py:52-61: get_audio_segment sends the GET line and blocks in
\* recv(1).
CliSendGet ==
    /\ cli.pc = "menu"
    /\ pc[CliConn] = "await"
    /\ cli.asked < MaxReqs
    /\ \E line \in CliGets : inbuf' = [inbuf EXCEPT ![CliConn] = @ \o line]
    /\ cli' = [CliMenu EXCEPT !.pc = "status", !.req = "get",
                              !.asked = cli.asked + 1, !.clean = (wire = <<>>)]
    /\ UNCHANGED wire
    /\ UNCHANGED SrvRest

\* server.py:82-275: the handler reads the line the client sent and its
\* response goes onto the wire.
ServeClient(c) ==
    /\ pc[c] = "await"
    /\ inbuf[c] # <<>>
    /\ \E exportOk \in BOOLEAN :
         \E r \in {HandleData(inbuf[c], catalog, disk, exportOk)} :
           /\ Serve(c, inbuf[c], r, TRUE)
           /\ wire' = wire \o r.sent
    /\ inbuf' = [inbuf EXCEPT ![c] = <<>>]
    /\ UNCHANGED <<wrote, peerClosed, tmpdir, tmp_name, scan, cli>>

\* client.py:25-35: recv(4096) returns what has arrived, at least one byte
\* and at most CliBuf; whatever json.loads makes of it, the function returns.
CliRecvList ==
    /\ cli.pc = "list_recv"
    /\ wire # <<>>
    /\ \E n \in 1..Min(Len(wire), CliBuf) :
          /\ cli' = [cli EXCEPT !.pc = "menu", !.received = SubSeq(wire, 1, n),
                                !.outcome = "list_read"]
          /\ wire' = SubSeq(wire, n + 1, Len(wire))
    /\ UNCHANGED inbuf
    /\ UNCHANGED SrvRest

\* client.py:61-64: recv(1), the status byte.
CliRecvStatus ==
    /\ cli.pc = "status"
    /\ wire # <<>>
    /\ cli' = [cli EXCEPT !.pc = "header", !.status = <<wire[1]>>]
    /\ wire' = Tail(wire)
    /\ UNCHANGED inbuf
    /\ UNCHANGED SrvRest

\* client.py:85-98: what the function does with the payload, by status.
ByStatus(status) ==
    IF status = <<48>> THEN "error_text"
    ELSE IF status = <<49>> THEN "saved"
    ELSE "unknown_status"

\* struct.unpack('!I', header)[0] (client.py:72) compared with
\* len(received) (client.py:74); received is shorter than 65536 bytes.
StillShort(received, header) ==
    header[1] > 0 \/ header[2] > 0 \/ Len(received) < header[3] * 256 + header[4]

\* client.py:67-74: one recv(4) for the length; fewer than 4 bytes is
\* reported as a header error and the function returns.
CliRecvHeader ==
    /\ cli.pc = "header"
    /\ wire # <<>>
    /\ \E n \in 1..Min(Len(wire), 4) :
          /\ cli' = IF n < 4
                    THEN [cli EXCEPT !.pc = "menu", !.header = SubSeq(wire, 1, n),
                                     !.outcome = "header_error"]
                    ELSE IF StillShort(<<>>, SubSeq(wire, 1, 4))
                    THEN [cli EXCEPT !.pc = "payload", !.header = SubSeq(wire, 1, 4)]
                    ELSE [cli EXCEPT !.pc = "menu", !.header = SubSeq(wire, 1, 4),
                                     !.outcome = ByStatus(cli.status)]
          /\ wire' = SubSeq(wire, n + 1, Len(wire))
    /\ UNCHANGED inbuf
    /\ UNCHANGED SrvRest

\* client.py:74-98: recv(4096) until len(received) reaches data_length.
CliRecvPayload ==
    /\ cli.pc = "payload"
    /\ wire # <<>>
    /\ \E n \in 1..Min(Len(wire), CliBuf) :
          LET received == cli.received \o SubSeq(wire, 1, n)
          IN /\ cli' = IF StillShort(received, cli.header)
                       THEN [cli EXCEPT !.received = received]
                       ELSE [cli EXCEPT !.pc = "menu", !.received = received,
                                        !.outcome = ByStatus(cli.status)]
             /\ wire' = SubSeq(wire, n + 1, Len(wire))
    /\ UNCHANGED inbuf
    /\ UNCHANGED SrvRest

NextClient ==
    \/ \E c \in Conns : AcceptOne(c)
    \/ CliSendList
    \/ CliSendGet
    \/ \E c \in Conns : ServeClient(c)
    \/ CliRecvList
    \/ CliRecvStatus
    \/ CliRecvHeader
    \/ CliRecvPayload

SpecClient == InitClient /\ [][NextClient]_vars

\* ---------------------------------------- startup (load_audio_metadata)

\* Names a directory may hold at startup: "a.wav", "b.wav", "C.MP3", "n.txt",
\* "wav" (no dot) and ".ogg" (nothing before the dot).
CMp3 == <<67, 46, 77, 80, 51>>
NoDot == <<119, 97, 118>>
DotOgg == <<46, 111, 103, 103>>
BootNames == <<AWav, BWav, CMp3, NTxt, NoDot, DotOgg>>
BootNameSet == {BootNames[i] : i \in 1..Len(BootNames)}

\* The directories the scan is run on: every name present and decodable,
\* present and not decodable, or absent.
BootDirs == [BootNameSet -> FileStates]

\* os.listdir(audio_dir) (server.py:43): the names present, in the
\* directory's order.
os_listdir(dir) == SelectSeq(BootNames, LAMBDA f : dir[f] # "absent")

\* s[1:] (server.py:49).
Drop1(s) == IF s = <<>> THEN <<>> ELSE Tail(s)

\* ScanEntry emptying the list when the engine fails on a file.
ScanEntryAborting(metadata_list, dir, filename) ==
    IF \E e \in SUPPORTED_EXTENSIONS : EndsWith(Lower(filename), e)
    THEN IF dir[filename] = "ok"
         THEN Append(metadata_list,
                     [filename |-> filename,
                      duration_sec |-> Round2(MsToSec(AudioLen(filename))),
                      format |-> Drop1(SplitExt(filename))])
         ELSE <<>>
    ELSE metadata_list

\* server.py:44-56: the body of the scan loop for one listed name; an
\* exception from the engine is logged and the list is left as it was.
ScanEntry(metadata_list, dir, filename) ==
    IF \E e \in SUPPORTED_EXTENSIONS : EndsWith(Lower(filename), e)
    THEN IF dir[filename] = "ok"
         THEN Append(metadata_list,
                     [filename |-> filename,
                      duration_sec |-> Round2(MsToSec(AudioLen(filename))),
                      format |-> Drop1(SplitExt(filename))])
         ELSE metadata_list
    ELSE metadata_list

\* start_server calls load_audio_metadata (server.py:287-288, 33): the
\* directory exists (found) with some files, or does not exist.
InitBoot ==
    /\ disk \in {d \in Disks : d[AWav] = "ok" /\ d[BWav] = "ok"}
    /\ catalog = <<>>
    /\ scan \in {s \in {[phase |-> "start", found |-> f, dir |-> d, pos |-> 0,
                          metadata_list |-> <<>>] :
                            f \in BOOLEAN, d \in BootDirs} :
                     s.found \/ \A n \in BootNameSet : s.dir[n] = "absent"}
    /\ InitConns

BootRest == <<disk, pc, inbuf, wrote, peerClosed, replies, last, prev, cause,
              tmpdir, tmp_name, wire, cli>>

\* server.py:35-41: a directory that does not exist is created, and the
\* function returns the empty list if that fails.
BootOpenDir ==
    /\ scan.phase = "start"
    /\ IF scan.found
       THEN scan' = [scan EXCEPT !.phase = "scan"] /\ UNCHANGED catalog
       ELSE \E made \in BOOLEAN :
              IF made
              THEN scan' = [scan EXCEPT !.phase = "scan"] /\ UNCHANGED catalog
              ELSE /\ scan' = [scan EXCEPT !.phase = "returned"]
                   /\ catalog' = scan.metadata_list
    /\ UNCHANGED BootRest

\* server.py:43-56: one turn of the loop over os.listdir(audio_dir).
BootScanFile ==
    /\ scan.phase = "scan"
    /\ scan.pos < Len(os_listdir(scan.dir))
    /\ scan' = [scan EXCEPT
                  !.pos = @ + 1,
                  !.metadata_list =
                      ScanEntry(@, scan.dir, os_listdir(scan.dir)[scan.pos + 1])]
    /\ UNCHANGED catalog
    /\ UNCHANGED BootRest

\* server.py:58-64, 288: the list is written to metadata.json (a failure is
\* logged) and returned; it becomes the server's metadata_list.
BootReturn ==
    /\ scan.phase = "scan"
    /\ scan.pos = Len(os_listdir(scan.dir))
    /\ scan' = [scan EXCEPT !.phase = "returned"]
    /\ catalog' = scan.metadata_list
    /\ UNCHANGED BootRest

NextBoot == BootOpenDir \/ BootScanFile \/ BootReturn

SpecBoot == InitBoot /\ [][NextBoot]_vars

\* -------------------------------------------------------------- claims

\* A step in which connection c ran one pass of its loop.
Stepped(c) == replies'[c] # replies[c] \/ last'[c] # last[c]

\* The pass handled a command whose verb is GET.
IsGet(p) == p.parts # <<>> /\ Upper(p.parts[1]) = VerbGET

\* The GET checks in their fixed order; "parse" and "nonneg" are the two
\* halves of the check of the time tokens.
CheckOrder8 ==
    <<"argc", "catalog", "parse", "nonneg", "exists", "open", "order", "duration">>

\* Whether check n of the GET of pass p fails under catalog cat and
\* directory dsk, given that the checks before it passed.  A check fails
\* when the condition the handler tests for its rejection is true
\* (start_sec >= end_sec, end_sec > file_duration_sec, ... < 0); a NaN makes
\* every such comparison false and so fails none of the checks.
CheckFails(n, p, cat, dsk) ==
    CASE n = 1 -> Len(p.parts) - 1 # 3
      [] n = 2 -> ~\E i \in 1..Len(cat) : cat[i].filename = p.parts[2]
      [] n = 3 -> p.start_sec = ValueError \/ p.end_sec = ValueError
      [] n = 4 -> FLt(p.start_sec, FZero) \/ FLt(p.end_sec, FZero)
      [] n = 5 -> dsk[p.parts[2]] = "absent"
      [] n = 6 -> dsk[p.parts[2]] # "ok"
      [] n = 7 -> FGe(p.start_sec, p.end_sec)
      [] n = 8 -> FGt(p.end_sec, MsToSec(AudioLen(p.parts[2])))

RECURSIVE FirstFailing(_, _, _, _)
FirstFailing(n, p, cat, dsk) ==
    IF n > 8 THEN 0
    ELSE IF CheckFails(n, p, cat, dsk) THEN n
    ELSE FirstFailing(n + 1, p, cat, dsk)

\* The message that belongs to each check.
RejectionOf(n) ==
    <<"get_format", "not_found", "time_format", "negative", "missing_disk",
      "read_error", "range", "exceeds">>[n]

\* C1: a GET is rejected with the message of the first check that fails, in
\* the order argument count, catalog, time tokens (numbers, then not
\* negative), on disk, engine opens, start < end, end <= duration; the checks
\* evaluated are those up to and including the failing one, each once, in
\* that order, and when none fails all were evaluated once and the pass went
\* on to the extraction.
C1_FirstFailingCheckWins ==
    [][\A c \in Conns :
          (Stepped(c) /\ IsGet(last'[c])) =>
              LET p == last'[c]
                  n == FirstFailing(1, p, catalog, disk)
              IN IF n = 0
                 THEN p.checks = CheckOrder8 /\ p.kind \in {"ok", "process_error"}
                 ELSE p.checks = SubSeq(CheckOrder8, 1, n) /\ p.kind = RejectionOf(n)
      ]_vars

\* C1 witness: a GET of a catalog file that is gone from the disk, with a
\* start that is not less than its end: the checks up to the one of the disk
\* ran and its rejection was sent, not that of the later range check.
C1_Witness ==
    \E c \in Conns :
        /\ last[c].kind = "missing_disk"
        /\ last[c].checks = <<"argc", "catalog", "parse", "nonneg", "exists">>
        /\ FGe(last[c].start_sec, last[c].end_sec)

\* The bytes are a framed response: a status byte '0' or '1', the payload
\* length as four bytes, most significant first, and that many bytes.
IsFramed(b) ==
    /\ Len(b) >= 5
    /\ b[1] \in {48, 49}
    /\ ((b[2] * 256 + b[3]) * 256 + b[4]) * 256 + b[5] = Len(b) - 5

\* C2: every response to a command whose verb is GET is framed, with status
\* '1' exactly when an excerpt was extracted (and then the payload is the
\* excerpt) and '0' otherwise; the responses to other commands are not framed.
C2_GetRepliesFramed ==
    \A c \in Conns :
        LET p == last[c]
        IN p.kind \notin {"none", "decode_error"} =>
              IF IsGet(p)
              THEN /\ IsFramed(p.sent)
                   /\ p.sent[1] = 49 <=> p.kind = "ok"
                   /\ p.kind = "ok" =>
                        /\ p.used
                        /\ SubSeq(p.sent, 6, Len(p.sent))
                             = Excerpt(p.parts[2], p.start_ms, p.end_ms)
              ELSE ~IsFramed(p.sent)

\* C2 witness: a GET answered with status '1', the length, and an excerpt
\* that holds more than the container's header.
C2_Witness ==
    \E c \in Conns :
        /\ IsGet(last[c])
        /\ last[c].kind = "ok"
        /\ last[c].sent[1] = 49
        /\ Len(last[c].sent) > 9

\* C3 (as claimed): once the handler has read everything the client wrote
\* and waits again, it has sent one response for every line written.
C3_OneReplyPerLine ==
    \A c \in Conns :
        (pc[c] = "await" /\ inbuf[c] = <<>>) => replies[c] = wrote[c]

\* C4 (as claimed): the handler is closed only by an empty read or a failure
\* of its own transport, never by an error in handling one command.
C4_ClosedOnlyByTransport ==
    \A c \in Conns : pc[c] = "closed" => cause[c] \in {"eof", "transport"}

\* C5 (as claimed): the slice handed to the engine satisfies
\* 0 <= start_ms < end_ms <= file_duration_ms.
C5_SliceNonEmpty ==
    \A c \in Conns :
        last[c].used =>
            /\ 0 <= last[c].start_ms
            /\ last[c].start_ms < last[c].end_ms
            /\ last[c].end_ms <= last[c].len_ms

InCat(p) == \E i \in 1..Len(catalog) : catalog[i].filename = p.parts[2]

\* C6 (as claimed): for a GET of a catalog file, a time token that is not a
\* finite number is answered InvalidTimeFormat, a negative one NegativeTime,
\* and neither reaches the disk, probe, range or extraction steps.
C6_NonFiniteRejected ==
    \A c \in Conns :
        LET p == last[c]
        IN (IsGet(p) /\ Len(p.parts) = 4 /\ InCat(p)) =>
              LET s == ParseFloat(p.parts[3])
                  e == ParseFloat(p.parts[4])
              IN /\ (s.k # "num" \/ e.k # "num") =>
                        (p.kind = "time_format" /\ Len(p.checks) <= 4)
                 /\ (s.k = "num" /\ e.k = "num" /\ (s.v < 0 \/ e.v < 0)) =>
                        (p.kind = "negative" /\ Len(p.checks) <= 4)

\* The file named by the GET of pass p is a valid file: a catalog entry that
\* is on the disk dsk and that the engine opens.
ValidFile(p, dsk) == InCat(p) /\ dsk[p.parts[2]] = "ok"

\* The response that says start must be less than end.
RangeReply == Framed(48, Utf8Encode(MsgRange))

\* C7 (as claimed): a GET of a valid file whose start is not less than its end
\* is answered InvalidRange.
C7_Original ==
    [][\A c \in Conns :
          LET p == last'[c]
          IN (Stepped(c) /\ IsGet(p) /\ Len(p.parts) = 4 /\ ValidFile(p, disk)
              /\ ParseFloat(p.parts[3]) # ValueError
              /\ ParseFloat(p.parts[4]) # ValueError
              /\ FGe(ParseFloat(p.parts[3]), ParseFloat(p.parts[4])))
             => p.kind = "range"
      ]_vars

\* C7 (amended): a GET of a valid file with start and end both numbers that
\* are not negative and start >= end (start = end included) is answered
\* InvalidRange: status '0' and the text that start must be less than end.
C7_InvalidRange ==
    [][\A c \in Conns :
          LET p == last'[c]
          IN (Stepped(c) /\ IsGet(p) /\ Len(p.parts) = 4 /\ ValidFile(p, disk)
              /\ p.start_sec # ValueError /\ p.end_sec # ValueError
              /\ ~FLt(p.start_sec, FZero) /\ ~FLt(p.end_sec, FZero)
              /\ FGe(p.start_sec, p.end_sec))
             => (p.kind = "range" /\ p.sent = RangeReply)
      ]_vars

\* C7 witness: start = end exactly, refused as an invalid range.
C7_Witness ==
    \E c \in Conns :
        /\ last[c].kind = "range"
        /\ last[c].parts[3] = last[c].parts[4]
        /\ last[c].sent = RangeReply

\* C8 (as claimed): a GET whose end is greater than the duration of the file
\* is answered RangeExceedsDuration.
C8_Original ==
    [][\A c \in Conns :
          LET p == last'[c]
          IN (Stepped(c) /\ IsGet(p) /\ Len(p.parts) = 4 /\ ValidFile(p, disk)
              /\ ParseFloat(p.parts[4]) # ValueError
              /\ FGt(ParseFloat(p.parts[4]), MsToSec(AudioLen(p.parts[2]))))
             => p.kind = "exceeds"
      ]_vars

\* C8 (amended): a GET of a valid file whose start is a number that is not
\* negative, with start < end and end greater than the duration the engine
\* reports for the file, is answered RangeExceedsDuration.
C8_RangeExceedsDuration ==
    [][\A c \in Conns :
          LET p == last'[c]
          IN (Stepped(c) /\ IsGet(p) /\ Len(p.parts) = 4 /\ ValidFile(p, disk)
              /\ p.start_sec # ValueError /\ p.end_sec # ValueError
              /\ ~FLt(p.start_sec, FZero)
              /\ FLt(p.start_sec, p.end_sec)
              /\ FGt(p.end_sec, MsToSec(AudioLen(p.parts[2]))))
             => (p.kind = "exceeds" /\ IsFramed(p.sent) /\ p.sent[1] = 48)
      ]_vars

\* C8 witness: "GET a.wav 0 1.51" on the 1.506 s file.
C8_Witness ==
    \E c \in Conns :
        /\ last[c].kind = "exceeds"
        /\ last[c].parts[2] = AWav
        /\ last[c].start_sec = FZero
        /\ last[c].end_sec = Float("num", 151 * (Scale \div 100), FALSE)

\* C9: a GET of three arguments whose file name is no catalog entry is
\* answered with the framed failure "File '<name>' not found.", whatever
\* its time tokens and whether or not the directory holds such a file.
C9_NotInCatalog ==
    \A c \in Conns :
        LET p == last[c]
        IN (IsGet(p) /\ Len(p.parts) = 4 /\ ~InCat(p)) =>
              /\ p.kind = "not_found"
              /\ p.sent = Framed(48, Utf8Encode(MsgFilePre \o p.parts[2]
                                                 \o MsgNotFoundPost))

\* C9 witness: a.wav is on the disk and decodes, but was not there at
\* startup; a GET of it with a time token that is no number is "not found".
C9_Witness ==
    \E c \in Conns :
        /\ last[c].kind = "not_found"
        /\ last[c].parts[2] = AWav
        /\ disk[AWav] = "ok"
        /\ ParseFloat(last[c].parts[3]) = ValueError

ListLine == Line(<<VerbLIST>>)

\* C10: a pass that answers with an error text (unknown verb, blank line,
\* LIST with parameters, rejected GET) leaves the handler awaiting the next
\* command unless the transport failed; and the pass after such a pass
\* serves a valid LIST with the catalog and a valid GET with the excerpt
\* (or the engine's failure).
C10_ConnectionStaysOpen ==
    [][\A c \in Conns :
          Stepped(c) =>
              LET p == last'[c]
                  after == Outcome(last[c].kind) = "refused"
              IN /\ Outcome(p.kind) = "refused" =>
                        (pc'[c] = "await" \/ cause'[c] = "transport")
                 /\ (after /\ p.data = ListLine) =>
                        /\ p.kind = "list"
                        /\ p.sent = Utf8Encode(JsonDumps(catalog))
                        /\ (pc'[c] = "await" \/ cause'[c] = "transport")
                 /\ (after /\ IsGet(p) /\ FirstFailing(1, p, catalog, disk) = 0
                     /\ p.start_sec.k = "num" /\ p.end_sec.k = "num") =>
                        /\ p.kind = "ok" \/ (p.kind = "process_error" /\ p.used)
                        /\ (pc'[c] = "await" \/ cause'[c] = "transport")
      ]_vars

\* C10 witness: the handler refused one command, then served a LIST, and
\* awaits a third.
C10_Witness ==
    \E c \in Conns :
        /\ prev[c] = "refused"
        /\ last[c].kind = "list"
        /\ last[c].delivered
        /\ pc[c] = "await"
        /\ replies[c] = 2

\* The pass reached the engine's export and the engine (or the read-back of
\* its output) failed: server.py:241-245 raised.
EngineFailed(p) == p.kind = "process_error" /\ p.used

\* C11 (as claimed): a GET of a catalog file from 0 to the duration the
\* catalog lists for it, the file being on the disk and readable, passes the
\* duration check and succeeds.
C11_RoundTripSucceeds ==
    \A c \in Conns :
        LET p == last[c]
        IN (IsGet(p) /\ Len(p.parts) = 4 /\ p.parts[3] = <<48>>
            /\ p.kind \notin {"missing_disk", "read_error"}
            /\ \E i \in 1..Len(catalog) :
                  /\ catalog[i].filename = p.parts[2]
                  /\ ParseFloat(p.parts[4]) = catalog[i].duration_sec)
           => (p.kind = "ok" \/ EngineFailed(p))

\* The catalog's serialization, the bytes a LIST is answered with.
ListReply == Utf8Encode(JsonDumps(catalog))

\* C14: no step changes the catalog, whatever happens to the files on the
\* disk and on the connections, and every LIST is answered with that same
\* catalog.
C14_CatalogNeverChanges ==
    [][/\ catalog' = catalog
       /\ \A c \in Conns :
             (Stepped(c) /\ last'[c].kind = "list") => last'[c].sent = ListReply
      ]_vars

\* C14 witness: a LIST was answered with the startup catalog after the
\* directory changed, so that a fresh scan would build another catalog.
C14_Witness ==
    \E c \in Conns :
        /\ last[c].kind = "list"
        /\ last[c].delivered
        /\ last[c].sent = ListReply
        /\ load_audio_metadata(disk) # catalog

\* data.decode('utf-8') (client.py:26) of a long response: the bytes are cut
\* where a character starts and the pieces decoded one after the other.
RECURSIVE DecodeRange(_, _, _)
DecodeRange(data, lo, hi) ==
    IF hi - lo < 24 THEN Utf8Decode(SubSeq(data, lo, hi))
    ELSE LET mid == (lo + hi) \div 2
             starts == {j \in mid..hi : ~IsCont(data[j])}
         IN IF starts = {} THEN Utf8Decode(SubSeq(data, lo, hi))
            ELSE LET m == CHOOSE j \in starts : \A k \in starts : j <= k
                     a == DecodeRange(data, lo, m - 1)
                     b == DecodeRange(data, m, hi)
                 IN IF a.ok /\ b.ok THEN [ok |-> TRUE, str |-> a.str \o b.str]
                    ELSE [ok |-> FALSE, str |-> <<>>]

\* json.loads as the client applies it to a LIST response (client.py:26),
\* for the fields it prints (client.py:28-31): the values that follow each
\* occurrence of a key, up to the character that ends them.
Occurs(s, pat, i) ==
    i + Len(pat) - 1 <= Len(s) /\ SubSeq(s, i, i + Len(pat) - 1) = pat

Until(s, i, stops) ==
    LET ends == {j \in i..Len(s) : s[j] \in stops}
    IN IF ends = {} THEN SubSeq(s, i, Len(s))
       ELSE SubSeq(s, i, (CHOOSE j \in ends : \A k \in ends : j <= k) - 1)

RECURSIVE FieldsIn(_, _, _, _, _)
FieldsIn(s, pat, stops, lo, hi) ==
    IF lo > hi THEN <<>>
    ELSE IF lo = hi
         THEN IF Occurs(s, pat, lo)
              THEN <<Until(s, lo + Len(pat), stops)>> ELSE <<>>
    ELSE LET mid == (lo + hi) \div 2
         IN FieldsIn(s, pat, stops, lo, mid) \o FieldsIn(s, pat, stops, mid + 1, hi)

KeyFilename == <<123, 34, 102, 105, 108, 101, 110, 97, 109, 101, 34, 58, 32, 34>>
KeyDuration ==
    <<34, 100, 117, 114, 97, 116, 105, 111, 110, 95, 115, 101, 99, 34, 58, 32>>
KeyFormat == <<34, 102, 111, 114, 109, 97, 116, 34, 58, 32, 34>>

JsonLoads(s) ==
    LET names == FieldsIn(s, KeyFilename, {34}, 1, Len(s))
        durs == FieldsIn(s, KeyDuration, {44, 125}, 1, Len(s))
        fmts == FieldsIn(s, KeyFormat, {34}, 1, Len(s))
    IN IF Len(s) < 2 \/ s[1] # 91 \/ s[Len(s)] # 93
          \/ Len(durs) # Len(names) \/ Len(fmts) # Len(names)
       THEN <<"not a list">>
       ELSE [i \in 1..Len(names) |->
                [filename |-> names[i], duration_sec |-> ParseFloat(durs[i]),
                 format |-> fmts[i]]]

\* The pass handled a command whose verb is LIST, in any case.
IsList(p) == p.parts # <<>> /\ Upper(p.parts[1]) = VerbLIST

\* C18: a LIST without arguments, its verb in any case, is answered with one
\* unframed response that is the catalog's serialization, and reading that
\* back gives every catalog entry, filename, duration_sec and format, in
\* catalog order and nothing else; a LIST followed by any token is answered
\* with the unframed error text and not with the catalog.
C18_ListSerializesCatalog ==
    \A c \in Conns :
        LET p == last[c]
        IN IsList(p) =>
              IF Len(p.parts) = 1
              THEN /\ p.kind = "list"
                   /\ p.sent = ListReply
                   /\ ~IsFramed(p.sent)
                   /\ JsonLoads(DecodeRange(p.sent, 1, Len(p.sent)).str) = catalog
              ELSE /\ p.kind = "list_params"
                   /\ p.sent = Utf8Encode(MsgListParams)
                   /\ ~IsFramed(p.sent)

\* C18 witness: "list" in lower case answered with a catalog of two entries.
C18_Witness ==
    \E c \in Conns :
        /\ last[c].parts = <<Lower(VerbLIST)>>
        /\ last[c].kind = "list"
        /\ Len(catalog) = 2
        /\ Len(JsonLoads(DecodeRange(last[c].sent, 1, Len(last[c].sent)).str)) = 2

\* C19: a pass looks at the disk, opens a file with the engine or slices its
\* audio only for a GET whose file name is exactly the filename of a catalog
\* entry; a success is sent for such a name only.
C19_OnlyCatalogFilesRead ==
    \A c \in Conns :
        LET p == last[c]
        IN (p.used \/ p.kind = "ok" \/ Len(p.checks) >= 5) =>
              (IsGet(p) /\ Len(p.parts) = 4 /\ InCat(p))

\* C19 witness: a.wav is in the catalog and on the disk; GETs of "../a.wav"
\* and of "A.WAV" stop at the catalog check.
C19_Witness ==
    \E c \in Conns :
        /\ InCatalog(catalog, AWav)
        /\ disk[AWav] = "ok"
        /\ last[c].kind = "not_found"
        /\ last[c].parts[2] \in {<<46, 46, 47>> \o AWav, Upper(AWav)}
        /\ last[c].checks = <<"argc", "catalog">>

\* The extension of a name: what follows its last dot, in lower case.
ExtOf(name) ==
    LET dots == {i \in 1..Len(name) : name[i] = 46}
    IN IF dots = {} THEN <<0>>
       ELSE Lower(SubSeq(name, (CHOOSE i \in dots : \A j \in dots : j <= i) + 1,
                         Len(name)))

\* "wav", "mp3", "ogg", "flac".
AudioExts ==
    {<<119, 97, 118>>, <<109, 112, 51>>, <<111, 103, 103>>, <<102, 108, 97, 99>>}

\* C17: when the catalog build has returned, the catalog holds exactly one
\* entry for every file of the directory whose extension is wav, mp3, ogg or
\* flac and that the engine opens, and no other entry, whichever other files
\* failed; and it is empty if the directory did not exist.
C17_CatalogBuild ==
    (scan.phase = "returned" /\ DOMAIN scan.dir = BootNameSet) =>
        /\ catalog = scan.metadata_list
        /\ \A f \in BootNameSet :
              (ExtOf(f) \in AudioExts /\ scan.dir[f] = "ok") =>
                  Cardinality({i \in 1..Len(catalog) : catalog[i].filename = f}) = 1
        /\ \A i \in 1..Len(catalog) :
              /\ catalog[i].filename \in BootNameSet
              /\ ExtOf(catalog[i].filename) \in AudioExts
              /\ scan.dir[catalog[i].filename] = "ok"
        /\ ~scan.found => catalog = <<>>

\* C17 witness: the engine failed on b.wav, listed between a.wav and C.MP3,
\* and the catalog holds both of them; n.txt is there and is no entry.
C17_Witness ==
    /\ scan.phase = "returned"
    /\ DOMAIN scan.dir = BootNameSet
    /\ scan.dir[BWav] = "corrupt"
    /\ scan.dir[NTxt] = "ok"
    /\ Len(catalog) >= 2
    /\ catalog[1].filename = AWav
    /\ catalog[2].filename = CMp3

Closes(c) == pc[c] # "closed" /\ pc'[c] = "closed"

\* C13: a step that ends one connection's handler, by a transport error or
\* a disconnect, changes nothing of any other connection; and whatever has
\* happened to the others, a waiting handler can serve its next command, a
\* handler in its export can finish it, and the accept loop can admit the
\* next connection.
C13_OtherHandlersUnaffected ==
    /\ [](\A d \in Conns :
            /\ (pc[d] = "await" /\ ~peerClosed[d] /\ replies[d] < MaxCmds)
                  => ENABLED RecvConc(d)
            /\ pc[d] = "export" => ENABLED ExportDone(d)
            /\ (pc[d] = "idle" /\ \A e \in Conns : e < d => pc[e] # "idle")
                  => ENABLED Accept(d))
    /\ [][\A c \in Conns :
            Closes(c) =>
               \A d \in Conns \ {c} :
                  /\ pc'[d] = pc[d]
                  /\ last'[d] = last[d]
                  /\ replies'[d] = replies[d]
                  /\ cause'[d] = cause[d]
                  /\ tmp_name'[d] = tmp_name[d]
         ]_vars

\* C13 witness: one handler was ended by a transport error before it served
\* anything; another connection has had two commands served and waits.
C13_Witness ==
    \E c, d \in Conns :
        /\ c # d
        /\ pc[c] = "closed" /\ cause[c] = "transport" /\ replies[c] = 0
        /\ pc[d] = "await" /\ replies[d] = 2 /\ last[d].delivered

\* C15: every temporary file that exists is the one of a GET still in its
\* export, each such GET has a file of its own, and a handler that is not
\* in an export holds none: once a GET is answered, by the excerpt or by
\* the error of a failed export or read-back, its file is gone.
C15_TempFilesRemoved ==
    /\ tmpdir = {tmp_name[c] : c \in {d \in Conns : pc[d] = "export"}}
    /\ \A c, d \in Conns :
          (c # d /\ pc[c] = "export" /\ pc[d] = "export") => tmp_name[c] # tmp_name[d]
    /\ \A c \in Conns : pc[c] # "export" => tmp_name[c] = 0
    /\ \A c \in Conns : pc[c] = "export" => tmp_name[c] \in TmpNames

\* C15 witness: one GET was answered with the error of a failed export
\* while another GET is in its export; the only temporary file is the
\* latter's.
C15_Witness ==
    \E c, d \in Conns :
        /\ c # d
        /\ pc[c] = "export"
        /\ EngineFailed(last[d]) /\ last[d].delivered /\ pc[d] = "await"
        /\ tmpdir = {tmp_name[c]}

\* C16 (as claimed): a GET sent when nothing stale was on the wire, whose
\* framed response the server has sent whole on a connection that stays
\* open, ends in the decoder with the status byte sent and exactly the
\* payload sent, and never with a header error, however the response is
\* split into reads.
C16_DecoderObtainsResponse ==
    (cli.pc = "menu" /\ cli.req = "get" /\ cli.clean /\ pc[CliConn] = "await") =>
        /\ cli.outcome # "header_error"
        /\ cli.status = <<last[CliConn].sent[1]>>
        /\ cli.received = SubSeq(last[CliConn].sent, 6, Len(last[CliConn].sent))

\* C20 (as claimed): when a request function has returned, nothing of the
\* response to it is left unread; and the status byte a GET has read, once
\* the server has answered that GET, is the first byte of that answer.
C20_ClientServerInStep ==
    /\ cli.pc = "menu" => wire = <<>>
    /\ (cli.req = "get" /\ cli.status # <<>> /\ replies[CliConn] = cli.asked)
          => cli.status = <<last[CliConn].sent[1]>>

====
